---- MODULE Spec2Model ----
(***************************************************************************)
(* A model of apply_theme.py, the OpenBench theme manager.                 *)
(*                                                                         *)
(* Files are modelled by their text, and text by a sequence of tokens.     *)
(* The tokens are cut so that every atom of the regular expressions of     *)
(* apply_theme.py (a selector, "{", "}", ";", a property name, a white     *)
(* space character, "#" followed by six hex digits) is one token or a run  *)
(* of tokens: the regular expressions are then evaluated on the token      *)
(* sequence with Python's leftmost, greedy/lazy, non-overlapping rules.    *)
(***************************************************************************)
EXTENDS Integers, Sequences, FiniteSets, TLC

(***************************************************************************)
(* Text tokens                                                             *)
(***************************************************************************)
SP == " "
NL == "\n"

\* \s of the patterns
IsWS(t) == t \in {SP, NL}

\* the tokens of shape #[0-9A-Fa-f]{6}
Hex6 == {"#aaaaaa", "#bbbbbb", "#cccccc", "#111111", "#222222", "#333333"}

IsHex6(t) == t \in Hex6

\* the text "--<var_name>:" of a custom-property declaration
VarDecl(var_name) == "--" \o var_name \o ":"

\* "background-color:" is cut before "color:", which the link pattern looks
\* for on its own
BackgroundColor == <<"background-", "color:">>

Min(S) == CHOOSE m \in S : \A k \in S : m <= k

Max(S) == CHOOSE m \in S : \A k \in S : m >= k

(***************************************************************************)
(* The regular expressions of apply_theme, as records:                     *)
(*   sel    the literal text the pattern starts with                       *)
(*   brace  whether \s*\{ follows the selector                             *)
(*   skip   whether [^}]* and a property name follow                       *)
(*   prop   the property name                                              *)
(*   gap    "ws" for \s*, "lazy" for [^;]*? before the color               *)
(*   keep   whether the text before the color is group 1 and kept (\1)     *)
(*   repl   the replacement text (after \1 when keep)                      *)
(***************************************************************************)
VarPattern(var_name, color) ==
    [sel |-> <<VarDecl(var_name)>>, brace |-> FALSE, skip |-> FALSE,
     prop |-> <<>>, gap |-> "ws", keep |-> FALSE,
     repl |-> <<VarDecl(var_name), SP>> \o color]

BlockPattern(sel, brace, prop, gap, color) ==
    [sel |-> sel, brace |-> brace, skip |-> TRUE,
     prop |-> prop, gap |-> gap, keep |-> TRUE, repl |-> color]

\* whether the tokens lit stand in t at position i
LitAt(t, i, lit) ==
    /\ i + Len(lit) - 1 <= Len(t)
    /\ \A k \in 1..Len(lit) : t[i + k - 1] = lit[k]

\* \s* from position k: the first position that holds no white space
SkipWS(t, k) ==
    LET stop == {j \in k..Len(t) : ~IsWS(t[j])}
    IN  IF stop = {} THEN Len(t) + 1 ELSE Min(stop)

\* the first position from k that holds token x, Len(t) + 1 if none
FirstTok(t, k, x) ==
    LET at == {j \in k..Len(t) : t[j] = x}
    IN  IF at = {} THEN Len(t) + 1 ELSE Min(at)

\* the end of a pattern from position k, after the property name: the gap,
\* then #[0-9A-Fa-f]{6}. The position of the color token, 0 if no match.
ColorAt(p, t, k) ==
    IF p.gap = "ws"
    THEN LET h == SkipWS(t, k)
         IN  IF h <= Len(t) /\ IsHex6(t[h]) THEN h ELSE 0
    ELSE \* [^;]*? is lazy: the first color with no ";" before it
         LET semi == FirstTok(t, k, ";")
             hs == {h \in k..(semi - 1) : IsHex6(t[h])}
         IN  IF hs = {} THEN 0 ELSE Min(hs)

\* re.match of pattern p at position i of t: the position of the color token
\* the match ends with, 0 if p does not match at i.
MatchAt(p, t, i) ==
    IF ~LitAt(t, i, p.sel) THEN 0
    ELSE LET a == i + Len(p.sel)
             ob == SkipWS(t, a)
             okBrace == ~p.brace \/ (ob <= Len(t) /\ t[ob] = "{")
             b == IF p.brace THEN ob + 1 ELSE a
         IN  IF ~okBrace THEN 0
             ELSE IF ~p.skip THEN ColorAt(p, t, b)
             ELSE \* [^}]* is greedy: the last property name before the
                  \* next "}" from which the rest of the pattern matches
                  LET close == FirstTok(t, b, "}")
                      js == {j \in b..(close - 1) :
                                /\ LitAt(t, j, p.prop)
                                /\ ColorAt(p, t, j + Len(p.prop)) # 0}
                  IN  IF js = {} THEN 0
                      ELSE ColorAt(p, t, Max(js) + Len(p.prop))

\* the first position >= i where p matches, 0 if none
NextMatch(p, t, i) ==
    LET starts == {s \in i..Len(t) : t[s] = p.sel[1] /\ MatchAt(p, t, s) # 0}
    IN  IF starts = {} THEN 0 ELSE Min(starts)

\* re.sub(pattern, replacement, t): every non-overlapping match, leftmost
\* first, is replaced; the text between the matches is kept.
RECURSIVE SubFrom(_, _, _)
SubFrom(p, t, i) ==
    LET s == NextMatch(p, t, i)
    IN  IF s = 0 THEN SubSeq(t, i, Len(t))
        ELSE LET h == MatchAt(p, t, s)
             IN  SubSeq(t, i, s - 1)
                 \o (IF p.keep THEN SubSeq(t, s, h - 1) ELSE <<>>)
                 \o p.repl
                 \o SubFrom(p, t, h + 1)

re_sub(p, t) == SubFrom(p, t, 1)

(***************************************************************************)
(* Theme descriptors                                                       *)
(*                                                                         *)
(* A theme file is [file, parses, colors]: its base name as tokens,        *)
(* whether json.load accepts it, and the "colors" object. backgrounds and  *)
(* text are sequences of <<var_name, color>> in the order of the JSON      *)
(* object; ui_elements, links and buttons are functions on the keys the    *)
(* file holds. A color is the token sequence of its text.                  *)
(***************************************************************************)
UiKeys == {"sidebar_hover", "table_header_bg", "table_border", "hover_row",
           "popup_bg", "popup_border"}

\* the (btn_class, color_key) list of the button loop
ButtonList == << <<".btn-blue", "btn_blue">>, <<".btn-start", "btn_start">>,
                 <<".btn-preset", "btn_preset">>,
                 <<".btn-yellow", "btn_yellow">>, <<".btn-red", "btn_red">> >>

ButtonKeys == {ButtonList[i][2] : i \in 1..Len(ButtonList)}
              \cup {ButtonList[i][2] \o "_hover" : i \in 1..Len(ButtonList)}

\* the lookups theme[...][...] of apply_theme that raise KeyError
RaisesKeyError(theme) ==
    LET c == theme.colors
    IN  \/ {"backgrounds", "text", "ui_elements", "links", "buttons"}
              \ DOMAIN c # {}
        \/ "default" \notin DOMAIN c.links
        \/ UiKeys \ DOMAIN c.ui_elements # {}
        \/ ButtonKeys \ DOMAIN c.buttons # {}

VarPatterns(vars) == [i \in 1..Len(vars) |-> VarPattern(vars[i][1], vars[i][2])]

LinkPattern(theme) ==
    BlockPattern(<<"a:link, a:visited, a:hover, a:active">>, TRUE,
                 <<"color:">>, "ws", theme.colors.links["default"])

\* the hand-written patterns, in list order, each with the ui_elements key
\* of its replacement
UiRules ==
    << [sel |-> <<"#sidebar li:hover">>, brace |-> TRUE,
        prop |-> BackgroundColor, gap |-> "ws", key |-> "sidebar_hover"],
       [sel |-> <<".stripes th">>, brace |-> TRUE,
        prop |-> BackgroundColor, gap |-> "ws", key |-> "table_header_bg"],
       [sel |-> <<".table-header th">>, brace |-> TRUE,
        prop |-> BackgroundColor, gap |-> "ws", key |-> "table_header_bg"],
       [sel |-> <<".table-small-header th">>, brace |-> TRUE,
        prop |-> BackgroundColor, gap |-> "ws", key |-> "table_header_bg"],
       [sel |-> <<".table-spacer-small th">>, brace |-> FALSE,
        prop |-> BackgroundColor, gap |-> "ws", key |-> "table_header_bg"],
       [sel |-> <<"#content td">>, brace |-> TRUE,
        prop |-> <<"border-bottom:">>, gap |-> "lazy", key |-> "table_border"],
       [sel |-> <<".hoverable tr:nth-child(odd):hover">>, brace |-> FALSE,
        prop |-> BackgroundColor, gap |-> "ws", key |-> "hover_row"],
       [sel |-> <<".hoverable tr:nth-child(even):hover">>, brace |-> FALSE,
        prop |-> BackgroundColor, gap |-> "ws", key |-> "hover_row"],
       [sel |-> <<".engine-options-popup">>, brace |-> TRUE,
        prop |-> BackgroundColor, gap |-> "ws", key |-> "popup_bg"],
       [sel |-> <<".engine-options-popup">>, brace |-> TRUE,
        prop |-> <<"border:">>, gap |-> "lazy", key |-> "popup_border"] >>

\* the two patterns of each button, base state then hover state, each with
\* the buttons key of its replacement
ButtonRules ==
    [k \in 1..(2 * Len(ButtonList)) |->
        LET b == ButtonList[(k + 1) \div 2]
        IN  [sel |-> IF k % 2 = 1 THEN <<b[1]>> ELSE <<b[1], ":hover">>,
             brace |-> TRUE, prop |-> BackgroundColor, gap |-> "ws",
             key |-> IF k % 2 = 1 THEN b[2] ELSE b[2] \o "_hover"]]

\* the patterns of rules with the colors of dictionary d
Patterns(rules, d) ==
    [i \in 1..Len(rules) |->
        BlockPattern(rules[i].sel, rules[i].brace, rules[i].prop,
                     rules[i].gap, d[rules[i].key])]

UiPatterns(ui) == Patterns(UiRules, ui)

ButtonPatterns(buttons) == Patterns(ButtonRules, buttons)

\* the list `replacements` of apply_theme, in the order it is built
Replacements(theme) ==
    VarPatterns(theme.colors.backgrounds) \o VarPatterns(theme.colors.text)
    \o <<LinkPattern(theme)>> \o UiPatterns(theme.colors.ui_elements)
    \o ButtonPatterns(theme.colors.buttons)

\* the loop `for pattern, replacement in replacements: re.sub(...)`
RECURSIVE ApplyAll(_, _, _)
ApplyAll(reps, k, t) ==
    IF k > Len(reps) THEN t
    ELSE LET u == re_sub(reps[k], t)
         IN  IF Len(u) >= 0 THEN ApplyAll(reps, k + 1, u) ELSE u

modified_content(theme, style_content) ==
    ApplyAll(Replacements(theme), 1, style_content)

(***************************************************************************)
(* The version token of config.py                                          *)
(***************************************************************************)
IDENT == "OPENBENCH_STATIC_VERSION = "
QUOTE == "'"
Digits == {"6", "7", "12"}

RECURSIVE Remove(_, _)
\* str.replace(x, ''): every occurrence of x is dropped
Remove(s, x) ==
    IF s = <<>> THEN <<>>
    ELSE (IF Head(s) = x THEN <<>> ELSE <<Head(s)>>) \o Remove(Tail(s), x)

\* os.path.basename(theme_file).replace('theme_', '').replace('.json', '')
theme_name(theme_file) == Remove(Remove(theme_file, "theme_"), ".json")

\* OPENBENCH_STATIC_VERSION = '([^']+)' at position i: the position of the
\* closing quote, 0 if no match there
VersionAt(t, i) ==
    IF ~LitAt(t, i, <<IDENT, QUOTE>>) THEN 0
    ELSE LET q == FirstTok(t, i + 2, QUOTE)
         IN  IF q <= Len(t) /\ q > i + 2 THEN q ELSE 0

\* re.search: the first match, 0 if none
VersionSearch(t) ==
    LET at == {i \in 1..Len(t) : VersionAt(t, i) # 0}
    IN  IF at = {} THEN 0 ELSE Min(at)

\* group 1 of the first match
old_version(t) ==
    LET i == VersionSearch(t) IN SubSeq(t, i + 2, VersionAt(t, i) - 1)

\* re.match(r'v(\d+)', old_version), '6' if it fails
base_version(old) ==
    IF Len(old) >= 2 /\ old[1] = "v" /\ old[2] \in Digits THEN old[2] ELSE "6"

new_version(t, name) == <<"v", base_version(old_version(t)), "-">> \o name

RECURSIVE VersionSubFrom(_, _, _)
\* re.sub of every version assignment by the new one
VersionSubFrom(t, i, new) ==
    LET at == {s \in i..Len(t) : VersionAt(t, s) # 0}
    IN  IF at = {} THEN SubSeq(t, i, Len(t))
        ELSE LET s == Min(at)
             IN  SubSeq(t, i, s - 1) \o <<IDENT, QUOTE>> \o new \o <<QUOTE>>
                 \o VersionSubFrom(t, VersionAt(t, s) + 1, new)

NoFile == [exists |-> FALSE, text |-> <<>>]

File(text) == [exists |-> TRUE, text |-> text]

\* _update_static_version: the config file after the call
update_static_version(cfg, name) ==
    IF ~cfg.exists THEN cfg
    ELSE IF VersionSearch(cfg.text) = 0 THEN cfg
    ELSE File(VersionSubFrom(cfg.text, 1, new_version(cfg.text, name)))

(***************************************************************************)
(* The manager's operations, as functions of the files they read           *)
(***************************************************************************)
css_files == {"style.css", "form.css", "paging.css", "base.css"}

\* what shutil.copy2(src, dst) leaves at dst when src exists, else dst as is
CopyIfExists(src, dst) == IF src.exists THEN src ELSE dst

\* the modification time of a directory entry written now: later than every
\* time recorded so far (the clock does not run backwards)
NextMtime(bk) == 1 + Max({0} \cup {bk[d].mtime : d \in DOMAIN bk})

\* backup_current at wall-clock second ts: the backups directory after the
\* call. backup_<ts> is made if absent (makedirs, exist_ok=True) and every
\* existing CSS file of the static directory is copied into it. A directory
\* gets a new modification time when an entry is added to it.
backup_current(st, bk, ts) ==
    LET had == ts \in DOMAIN bk
        old == IF had THEN bk[ts].files ELSE [f \in css_files |-> NoFile]
        new == [f \in css_files |-> CopyIfExists(st[f], old[f])]
        added == \E f \in css_files : new[f].exists /\ ~old[f].exists
        dir == [mtime |-> IF had /\ ~added THEN bk[ts].mtime ELSE NextMtime(bk),
                files |-> new]
    IN  [d \in DOMAIN bk \cup {ts} |-> IF d = ts THEN dir ELSE bk[d]]

\* a variant that takes the first entry of the sorted list, not the last
LatestBackup_first(bk) ==
    CHOOSE d \in DOMAIN bk : \A e \in DOMAIN bk : bk[d].mtime <= bk[e].mtime

\* sorted(Path(backup_dir).iterdir(), key=os.path.getmtime)[-1]
LatestBackup(bk) ==
    CHOOSE d \in DOMAIN bk : \A e \in DOMAIN bk : bk[e].mtime <= bk[d].mtime

\* a backup_name is [latest, ts]: the word 'latest', or the name backup_<ts>
Latest == [latest |-> TRUE, ts |-> 0]

Named(ts) == [latest |-> FALSE, ts |-> ts]

\* the directory restore_backup reads, [found, path]
backup_path(bk, backup_name) ==
    IF backup_name.latest
    THEN IF DOMAIN bk = {} THEN [found |-> FALSE, path |-> 0]
         ELSE [found |-> TRUE, path |-> LatestBackup(bk)]
    ELSE [found |-> backup_name.ts \in DOMAIN bk, path |-> backup_name.ts]

\* a variant that copies a file only where the static directory has none
restore_backup_no_overwrite(st, bk, cfg, backup_name) ==
    LET b == backup_path(bk, backup_name)
    IN  IF ~b.found THEN [static |-> st, config |-> cfg]
        ELSE [static |-> [f \in css_files |->
                             IF st[f].exists THEN st[f]
                             ELSE bk[b.path].files[f]],
              config |-> update_static_version(cfg, <<"restored">>)]

\* a variant that goes on to the version bump when the backup is not found
restore_backup_always_bumps(st, bk, cfg, backup_name) ==
    LET b == backup_path(bk, backup_name)
    IN  [static |-> IF ~b.found THEN st
                    ELSE [f \in css_files |->
                             CopyIfExists(bk[b.path].files[f], st[f])],
         config |-> update_static_version(cfg, <<"restored">>)]

\* restore_backup: the static directory and the config file after the call
restore_backup(st, bk, cfg, backup_name) ==
    LET b == backup_path(bk, backup_name)
    IN  IF ~b.found THEN [static |-> st, config |-> cfg]
        ELSE [static |-> [f \in css_files |->
                             CopyIfExists(bk[b.path].files[f], st[f])],
              config |-> update_static_version(cfg, <<"restored">>)]

\* a variant that also raises when a rule finds no match in style.css
ApplyRaises_strict(st, th, theme_file) ==
    \/ theme_file \notin DOMAIN th
    \/ ~th[theme_file].parses
    \/ RaisesKeyError(th[theme_file])
    \/ ~st["style.css"].exists
    \/ LET reps == Replacements(th[theme_file])
       IN  \E k \in 1..Len(reps) :
              NextMatch(reps[k], st["style.css"].text, 1) = 0

\* whether apply_theme raises before it writes anything: the theme file is
\* not found, json.load fails, a key lookup fails, or style.css is missing
ApplyRaises(st, th, theme_file) ==
    \/ theme_file \notin DOMAIN th
    \/ ~th[theme_file].parses
    \/ RaisesKeyError(th[theme_file])
    \/ ~st["style.css"].exists

\* a variant that catches the exception and still bumps the version
apply_theme_bumps_on_error(st, th, cfg, theme_file) ==
    IF ApplyRaises(st, th, theme_file)
    THEN [static |-> st,
          config |-> update_static_version(cfg, theme_name(theme_file))]
    ELSE [static |-> [st EXCEPT !["style.css"] =
                         File(modified_content(th[theme_file], @.text))],
          config |-> update_static_version(cfg, theme_name(theme_file))]

\* apply_theme: the static directory and the config file after the call
apply_theme(st, th, cfg, theme_file) ==
    IF ApplyRaises(st, th, theme_file) THEN [static |-> st, config |-> cfg]
    ELSE [static |-> [st EXCEPT !["style.css"] =
                         File(modified_content(th[theme_file], @.text))],
          config |-> update_static_version(cfg, theme_name(theme_file))]

(***************************************************************************)
(* ThemeManager.__init__: the root locator                                 *)
(***************************************************************************)
possible_paths == <<"cwd", "script_dir", "/home/brandon/OpenBench",
                    "/opt/OpenBench", "/var/www/OpenBench">>

markers == {"manage.py", "OpenBench/static/style.css", "Templates/OpenBench"}

\* a directory tree is a function from paths to [exists, has]: whether the
\* path exists, and which of the markers exist under it
is_openbench_root(tree, path) == markers \subseteq tree[path].has

\* _find_openbench_root; "" is the absent (or empty) --path argument.
\* [found, path]; found = FALSE is the ValueError.
find_openbench_root(tree, provided_path) ==
    IF provided_path # "" /\ tree[provided_path].exists
    THEN [found |-> TRUE, path |-> provided_path]
    ELSE LET hits == {i \in 1..Len(possible_paths) :
                         is_openbench_root(tree, possible_paths[i])}
         IN  IF hits = {} THEN [found |-> FALSE, path |-> ""]
             ELSE [found |-> TRUE, path |-> possible_paths[Min(hits)]]

(***************************************************************************)
(* Data: the theme files, stylesheets and config files of the model        *)
(***************************************************************************)
Theme(bg, text, ui, link, btn, hover) ==
    [parses |-> TRUE,
     colors |-> [backgrounds |-> << <<"bg-primary", bg>> >>,
                 text |-> << <<"text-main", text>> >>,
                 ui_elements |-> [k \in UiKeys |-> ui],
                 links |-> [default |-> link],
                 buttons |-> [k \in ButtonKeys |->
                                 IF k \in {ButtonList[i][2] :
                                              i \in 1..Len(ButtonList)}
                                 THEN btn ELSE hover]]]

\* ui_elements or buttons without key k
DropUi(theme, k) ==
    [theme EXCEPT !.colors.ui_elements =
        [j \in DOMAIN @ \ {k} |-> theme.colors.ui_elements[j]]]

DropButton(theme, k) ==
    [theme EXCEPT !.colors.buttons =
        [j \in DOMAIN @ \ {k} |-> theme.colors.buttons[j]]]

Navy == Theme(<<"#111111">>, <<"#222222">>, <<"#333333">>, <<"#111111">>,
              <<"#222222">>, <<"#333333">>)

Dark == Theme(<<"#222222">>, <<"#333333">>, <<"#111111">>, <<"#333333">>,
              <<"#111111">>, <<"#222222">>)

\* a background color with an alpha channel, #RRGGBBAA
Alpha == Theme(<<"#111111", "cc">>, <<"#222222">>, <<"#333333">>,
               <<"#111111">>, <<"#222222">>, <<"#333333">>)

F_navy == <<"theme_", "navy_blue", ".json">>
F_dark == <<"theme_", "dark", ".json">>
F_dark2 == <<"theme_", "dark_", "theme_", "v2", ".json">>
F_quote == <<"theme_", "o", QUOTE, "neil", ".json">>
F_alpha == <<"theme_", "alpha", ".json">>
F_nopopup == <<"theme_", "nopopup", ".json">>
F_nohover == <<"theme_", "nohover", ".json">>
F_corrupt == <<"theme_", "corrupt", ".json">>
F_missing == <<"theme_", "missing", ".json">>

\* the themes directory of the model
AllThemes ==
    (F_navy :> Navy) @@ (F_dark :> Dark) @@ (F_dark2 :> Dark)
    @@ (F_quote :> Navy) @@ (F_alpha :> Alpha)
    @@ (F_nopopup :> DropUi(Navy, "popup_border"))
    @@ (F_nohover :> DropButton(Dark, "btn_red_hover"))
    @@ (F_corrupt :> [Navy EXCEPT !.parses = FALSE])

\* one rule's block: selector, "{", a declaration with a color, "}"
Block(sel, prop, pre, color) ==
    sel \o <<SP, "{", NL>> \o prop \o pre \o <<color, ";", NL, "}", NL>>

\* the :root block with the two custom properties, ws between ":" and "#"
RootBlock(ws) ==
    <<":root", SP, "{", NL, "--bg-primary:">> \o ws \o <<"#aaaaaa", ";", NL,
      "--text-main:">> \o ws \o <<"#bbbbbb", ";", NL, "}", NL>>

\* the blocks the structural and button patterns look for, in file order;
\* the popup block holds both of its declarations
RuleBlocks ==
    << Block(<<"a:link, a:visited, a:hover, a:active">>, <<"color:">>,
             <<SP>>, "#aaaaaa"),
       Block(<<"#sidebar li:hover">>, BackgroundColor, <<SP>>, "#bbbbbb"),
       Block(<<".stripes th">>, BackgroundColor, <<SP>>, "#cccccc"),
       Block(<<".table-header th">>, BackgroundColor, <<SP>>, "#cccccc"),
       Block(<<".table-small-header th">>, BackgroundColor, <<SP>>, "#cccccc"),
       Block(<<".table-spacer-small th">>, BackgroundColor, <<SP>>, "#cccccc"),
       Block(<<"#content td">>, <<"border-bottom:">>, <<SP, "1px solid", SP>>,
             "#aaaaaa"),
       Block(<<".hoverable tr:nth-child(odd):hover">>, BackgroundColor, <<SP>>,
             "#bbbbbb"),
       Block(<<".hoverable tr:nth-child(even):hover">>, BackgroundColor,
             <<SP>>, "#bbbbbb"),
       <<".engine-options-popup", SP, "{", NL>> \o BackgroundColor
         \o <<SP, "#aaaaaa", ";", NL, "border:", SP, "1px solid", SP,
              "#bbbbbb", ";", NL, "}", NL>> >>
    \o [k \in 1..(2 * Len(ButtonList)) |->
           Block(IF k % 2 = 1 THEN <<ButtonList[(k + 1) \div 2][1]>>
                 ELSE <<ButtonList[(k + 1) \div 2][1], ":hover">>,
                 BackgroundColor, <<SP>>, "#cccccc")]

RECURSIVE Flatten(_, _)
\* the blocks of bs from the k-th on, one after the other
Flatten(bs, k) == IF k > Len(bs) THEN <<>> ELSE bs[k] \o Flatten(bs, k + 1)

\* a stylesheet with every targeted declaration and block
FullSheet(ws) == RootBlock(ws) \o Flatten(RuleBlocks, 1)

\* the same without the k-th rule block
SheetWithout(k) ==
    RootBlock(<<SP>>)
    \o Flatten([i \in 1..(Len(RuleBlocks) - 1) |->
                   RuleBlocks[IF i < k THEN i ELSE i + 1]], 1)

\* short stylesheets: a custom property and one button; a color with an
\* alpha channel; a border-bottom with no color before the next block
SmallSheet ==
    <<"--bg-primary:", "#aaaaaa", ";", NL>>
    \o Block(<<".btn-blue">>, BackgroundColor, <<SP>>, "#bbbbbb")

OddSheet ==
    <<"--bg-primary:", SP, SP, "#aaaaaa", "ff", ";", NL,
      "#content td", "{", "border-bottom:", "1px solid", "}", NL,
      ".foo", "{", "color:", "#cccccc", ";", "}", NL>>
    \o <<".btn-red", "{">> \o BackgroundColor \o <<"#aaaaaa", ";">>
    \o BackgroundColor \o <<"#bbbbbb", ";", "}", NL>>

\* config.py with one version assignment
ConfigWith(version) ==
    File(<<"DEBUG = True", NL, IDENT, QUOTE>> \o version \o <<QUOTE, NL>>)

(***************************************************************************)
(* Bounds                                                                  *)
(***************************************************************************)
\* invocations (and edits) in one behaviour of the main specification
MaxSteps == 3
\* invocations in one behaviour of the apply specification
MaxApplies == 2
\* the wall clock runs over the seconds 0..MaxSec
MaxSec == 2
\* edits of one CSS file by the user
MaxEdits == 1

(***************************************************************************)
(* State                                                                   *)
(*   static    the CSS files of OpenBench/static                           *)
(*   backups   theme_backups: second ts |-> the directory backup_<ts>      *)
(*   config    OpenBench/config.py                                         *)
(*   themes    the themes directory: file name |-> theme file              *)
(*   sec       the wall-clock second of the last clock reading             *)
(*   tree      the directory trees the root locator probes                 *)
(*   manager   what the last construction of ThemeManager gave             *)
(* and, recorded for the properties:                                       *)
(*   last      the last invocation: command, arguments, exit status        *)
(*   repeat    whether it repeated the invocation before it               *)
(*   pre       static, backups and config before the last invocation       *)
(*   calls     the backup_current calls: the path returned and the static  *)
(*             directory at the time                                       *)
(*   trip      1 after backup_current, 2 after apply_theme following it,   *)
(*             3 after restore_backup of that backup following both        *)
(*   steps     invocations and edits left                                  *)
(***************************************************************************)
VARIABLES static, backups, config, themes, sec, tree, manager,
          last, repeat, pre, calls, trip, steps

vars == <<static, backups, config, themes, sec, tree, manager,
          last, repeat, pre, calls, trip, steps>>

disk == [static |-> static, backups |-> backups, config |-> config]

Op(op, file, name, no_backup, exit) ==
    [op |-> op, file |-> file, name |-> name, no_backup |-> no_backup,
     exit |-> exit]

\* the clock read by an invocation: the second of the last reading or, when
\* a second boundary has passed since, a later one
ClockNow == {t \in {sec, sec + 1} : t <= MaxSec}

Record(e) ==
    /\ last' = e
    /\ repeat' = (last = e)
    /\ pre' = disk
    /\ steps' = steps - 1

(***************************************************************************)
(* main: one action per command line                                       *)
(***************************************************************************)
\* --list, --list-backups and the usage text: nothing is written
MainList(op) ==
    /\ steps > 0 /\ manager.state = "ready"
    /\ Record(Op(op, <<>>, Latest, FALSE, 0))
    /\ trip' = 0
    /\ UNCHANGED <<static, backups, config, themes, sec, tree, manager, calls>>

\* --backup
MainBackup ==
    /\ steps > 0 /\ manager.state = "ready"
    /\ \E ts \in ClockNow :
          /\ backups' = backup_current(static, backups, ts)
          /\ sec' = ts
          /\ calls' = Append(calls, [path |-> ts, files |-> static])
    /\ Record(Op("backup", <<>>, Latest, FALSE, 0))
    /\ trip' = 1
    /\ UNCHANGED <<static, config, themes, tree, manager>>

\* --restore backup_name
MainRestore(backup_name) ==
    /\ steps > 0 /\ manager.state = "ready"
    /\ LET r == restore_backup(static, backups, config, backup_name)
       IN  static' = r.static /\ config' = r.config
    /\ Record(Op("restore", <<>>, backup_name, FALSE, 0))
    /\ trip' = IF /\ trip = 2 /\ ~backup_name.latest
                  /\ backup_name.ts = calls[Len(calls)].path
               THEN 3 ELSE 0
    /\ UNCHANGED <<backups, themes, sec, tree, manager, calls>>

\* --apply theme_file [--no-backup]: the backup unless suppressed, then
\* apply_theme; an exception ends the invocation with exit status 1
MainApply(theme_file, no_backup) ==
    /\ steps > 0 /\ manager.state = "ready"
    /\ IF no_backup
       THEN /\ trip' = IF trip = 1 THEN 2 ELSE 0
            /\ UNCHANGED <<backups, sec, calls>>
       ELSE /\ \E ts \in ClockNow :
                  /\ backups' = backup_current(static, backups, ts)
                  /\ sec' = ts
                  /\ calls' = Append(calls, [path |-> ts, files |-> static])
            /\ trip' = 2
    /\ LET r == apply_theme(static, themes, config, theme_file)
       IN  static' = r.static /\ config' = r.config
    /\ Record(Op("apply", theme_file, Latest, no_backup,
                 IF ApplyRaises(static, themes, theme_file) THEN 1 ELSE 0))
    /\ UNCHANGED <<themes, tree, manager>>

\* the user edits a CSS file between two invocations
EditCss(f) ==
    /\ steps > 0
    /\ static[f].exists
    /\ Cardinality({i \in 1..Len(static[f].text) :
                       static[f].text[i] = "/* edited */"}) < MaxEdits
    /\ static' = [static EXCEPT ![f] = File(Append(@.text, "/* edited */"))]
    /\ Record(Op("edit", <<f>>, Latest, FALSE, 0))
    /\ trip' = 0
    /\ UNCHANGED <<backups, config, themes, sec, tree, manager, calls>>

\* ThemeManager(args.path): the root is located; ValueError ends main with
\* exit status 1 before any action
Construct(provided_path) ==
    /\ manager.state = "none"
    /\ LET r == find_openbench_root(tree, provided_path)
       IN  /\ manager' = [state |-> IF r.found THEN "ready" ELSE "error",
                          openbench_root |-> r.path]
           /\ last' = Op("construct", <<provided_path>>, Latest, FALSE,
                         IF r.found THEN 0 ELSE 1)
    /\ UNCHANGED <<static, backups, config, themes, sec, tree, repeat, pre,
                   calls, trip, steps>>

(***************************************************************************)
(* Specifications                                                          *)
(***************************************************************************)
NoBackups == [d \in {} |-> [mtime |-> 0, files |-> [f \in css_files |-> NoFile]]]

Paths == {possible_paths[i] : i \in 1..Len(possible_paths)}
         \cup {"/srv/OpenBench"}

\* a tree in which only the current directory is an OpenBench root
CwdTree ==
    [p \in Paths |-> IF p = "cwd" THEN [exists |-> TRUE, has |-> markers]
                     ELSE [exists |-> FALSE, has |-> {}]]

StaticWith(style) ==
    [f \in css_files |->
        IF f = "style.css" THEN File(style)
        ELSE IF f = "form.css" THEN File(<<"/* form */">>)
        ELSE NoFile]

InitRest ==
    /\ backups = NoBackups
    /\ sec = 0
    /\ last = Op("none", <<>>, Latest, FALSE, 0)
    /\ repeat = FALSE
    /\ pre = disk
    /\ calls = <<>>
    /\ trip = 0

\* The main specification: every command line, on short stylesheets, after
\* a ThemeManager was constructed on a valid root.
MainThemes == [f \in {F_navy, F_dark2} |-> AllThemes[f]]

MainFiles == DOMAIN MainThemes \cup {F_missing}

Init ==
    /\ \E style \in {SmallSheet, OddSheet} : static = StaticWith(style)
    /\ config \in {NoFile, File(<<"DEBUG = True", NL>>),
                   ConfigWith(<<"v", "7">>), ConfigWith(<<"dev">>)}
    /\ themes = MainThemes
    /\ tree = CwdTree
    /\ manager = [state |-> "ready", openbench_root |-> "cwd"]
    /\ steps = MaxSteps
    /\ InitRest

Next ==
    \/ \E op \in {"list", "list_backups", "help"} : MainList(op)
    \/ MainBackup
    \/ \E n \in {Latest} \cup {Named(t) : t \in 0..MaxSec} : MainRestore(n)
    \/ \E f \in MainFiles, nb \in BOOLEAN : MainApply(f, nb)
    \/ \E f \in css_files : EditCss(f)

Spec == Init /\ [][Next]_vars

\* The apply specification: --apply --no-backup of every theme file, on the
\* stylesheets with every targeted block, with one block missing, and the
\* short ones.
ApplySheets ==
    {FullSheet(ws) : ws \in {<<>>, <<SP>>, <<SP, SP>>, <<NL>>}}
    \cup {SheetWithout(k) : k \in 1..Len(RuleBlocks)}
    \cup {SmallSheet, OddSheet}

ApplyThemes ==
    [f \in {F_navy, F_dark, F_alpha, F_quote, F_nopopup, F_nohover,
             F_corrupt} |-> AllThemes[f]]

ApplyFiles == DOMAIN ApplyThemes \cup {F_missing}

InitApply ==
    /\ \E style \in ApplySheets : static = StaticWith(style)
    /\ config = ConfigWith(<<"v", "6">>)
    /\ themes = ApplyThemes
    /\ tree = CwdTree
    /\ manager = [state |-> "ready", openbench_root |-> "cwd"]
    /\ steps = MaxApplies
    /\ InitRest

NextApply == \E f \in ApplyFiles : MainApply(f, TRUE)

SpecApply == InitApply /\ [][NextApply]_vars

\* The root specification: the construction of ThemeManager on directory
\* trees in which each path is absent, an empty directory, a directory with
\* one marker missing, or an OpenBench root.
TreeStates ==
    {[exists |-> FALSE, has |-> {}], [exists |-> TRUE, has |-> {}],
     [exists |-> TRUE, has |-> markers \ {"manage.py"}],
     [exists |-> TRUE, has |-> markers]}

InitRoot ==
    /\ tree \in [Paths -> TreeStates]
    /\ tree["cwd"].exists /\ tree["script_dir"].exists
    /\ manager = [state |-> "none", openbench_root |-> ""]
    /\ static = StaticWith(SmallSheet)
    /\ config = NoFile
    /\ themes = MainThemes
    /\ steps = 0
    /\ InitRest

NextRoot == \E p \in Paths \cup {""} : Construct(p)

SpecRoot == InitRoot /\ [][NextRoot]_vars

(***************************************************************************)
(* Properties                                                              *)
(***************************************************************************)
style == static["style.css"].text

pre_style == pre.static["style.css"].text

Contains(t, lit) == \E i \in 1..Len(t) : LitAt(t, i, lit)

\* the theme file the last --apply named, when it was found and parsed
AppliedTheme == themes[last.file]

Loaded == last.op = "apply" /\ last.file \in DOMAIN themes
          /\ AppliedTheme.parses

\* every key a substitution rule refers to is there
HasAllKeys(theme) ==
    /\ "default" \in DOMAIN theme.colors.links
    /\ UiKeys \subseteq DOMAIN theme.colors.ui_elements
    /\ ButtonKeys \subseteq DOMAIN theme.colors.buttons

\* every color of the theme is "#" and six hex digits
SixDigitColors(theme) ==
    LET c == theme.colors
        ok(color) == Len(color) = 1 /\ IsHex6(color[1])
    IN  /\ \A i \in 1..Len(c.backgrounds) : ok(c.backgrounds[i][2])
        /\ \A i \in 1..Len(c.text) : ok(c.text[i][2])
        /\ \A k \in DOMAIN c.ui_elements : ok(c.ui_elements[k])
        /\ \A k \in DOMAIN c.links : ok(c.links[k])
        /\ \A k \in DOMAIN c.buttons : ok(c.buttons[k])

\* the text differs from the input in color values only
OnlyColorsChanged(inp, out) ==
    /\ Len(out) = Len(inp)
    /\ \A i \in 1..Len(inp) :
          out[i] # inp[i] => IsHex6(inp[i]) /\ IsHex6(out[i])

\* the color of the declaration of prop in the block of selector sel: the
\* first color after the first prop after the selector
DeclColor(t, sel, prop) ==
    LET i == Min({k \in 1..Len(t) : LitAt(t, k, sel \o <<SP, "{">>)})
        j == Min({k \in i..Len(t) : LitAt(t, k, prop)})
    IN  t[Min({k \in j..Len(t) : IsHex6(t[k])})]

\* the color of every declaration of custom property var_name
VarColors(t, var_name) ==
    {t[SkipWS(t, i + 1)] : i \in {k \in 1..Len(t) : t[k] = VarDecl(var_name)}}

HasAllTargets(theme, t) ==
    /\ \A i \in 1..Len(theme.colors.backgrounds) :
          Contains(t, <<VarDecl(theme.colors.backgrounds[i][1])>>)
    /\ \A i \in 1..Len(theme.colors.text) :
          Contains(t, <<VarDecl(theme.colors.text[i][1])>>)
    /\ Contains(t, <<"a:link, a:visited, a:hover, a:active", SP, "{">>)
    /\ \A i \in 1..Len(UiRules) : Contains(t, UiRules[i].sel \o <<SP, "{">>)
    /\ \A i \in 1..Len(ButtonRules) :
          Contains(t, ButtonRules[i].sel \o <<SP, "{">>)

TargetsSet(theme, t) ==
    LET c == theme.colors
    IN  /\ \A i \in 1..Len(c.backgrounds) :
              VarColors(t, c.backgrounds[i][1]) = {c.backgrounds[i][2][1]}
        /\ \A i \in 1..Len(c.text) :
              VarColors(t, c.text[i][1]) = {c.text[i][2][1]}
        /\ DeclColor(t, <<"a:link, a:visited, a:hover, a:active">>,
                     <<"color:">>) = c.links["default"][1]
        /\ \A i \in 1..Len(UiRules) :
              DeclColor(t, UiRules[i].sel, UiRules[i].prop)
                 = c.ui_elements[UiRules[i].key][1]
        /\ \A i \in 1..Len(ButtonRules) :
              DeclColor(t, ButtonRules[i].sel, ButtonRules[i].prop)
                 = c.buttons[ButtonRules[i].key][1]

\* C1: for a theme with all required keys and 6-hex-digit colors, on a
\* stylesheet with all targeted declarations and blocks, apply_theme writes
\* a stylesheet in which every targeted color is the theme's and every
\* character outside the targeted color values is as in the input (also
\* the text between the colon of a custom property and its color).
C1_OnlyTargetedColors ==
    (/\ Loaded /\ HasAllKeys(AppliedTheme) /\ SixDigitColors(AppliedTheme)
     /\ HasAllTargets(AppliedTheme, pre_style))
    => /\ last.exit = 0
       /\ TargetsSet(AppliedTheme, style)
       /\ OnlyColorsChanged(pre_style, style)

\* C2: backup_current, then apply_theme, then restore_backup naming the
\* directory backup_current returned leave style.css and every other
\* backed-up CSS file with the content they had before the backup.
C2_RoundTrip ==
    trip = 3 =>
       \A f \in css_files :
          calls[Len(calls)].files[f].exists
             => static[f] = calls[Len(calls)].files[f]

\* the round trip was made, the theme changed style.css and the restore
\* brought the old text back
C2_Witness ==
    /\ trip = 3 /\ last.op = "restore"
    /\ pre.static["style.css"] # calls[Len(calls)].files["style.css"]
    /\ static["style.css"] = calls[Len(calls)].files["style.css"]

\* C3: after N >= 1 backup_current calls, with edits and applied themes
\* between them, restore_backup('latest') puts into the static directory
\* the CSS contents the N-th call captured.
C3_RestoreLatest ==
    (last.op = "restore" /\ last.name.latest /\ calls # <<>>)
    => \A f \in css_files :
          calls[Len(calls)].files[f].exists
             => static[f] = calls[Len(calls)].files[f]

\* 'latest' was restored after two backups in two directories that hold
\* different stylesheets, and the restore changed style.css
C3_Witness ==
    /\ last.op = "restore" /\ last.name.latest /\ Len(calls) >= 2
    /\ calls[1].path # calls[Len(calls)].path
    /\ calls[1].files["style.css"] # calls[Len(calls)].files["style.css"]
    /\ static["style.css"] # pre.static["style.css"]

\* the version token of a config file, <<>> if it holds none
Token(cfg) ==
    IF cfg.exists /\ VersionSearch(cfg.text) # 0 THEN old_version(cfg.text)
    ELSE <<>>

\* X of the file name theme_<X>.json
Stem(file) ==
    IF Len(file) >= 2 /\ file[1] = "theme_" /\ file[Len(file)] = ".json"
    THEN SubSeq(file, 2, Len(file) - 1) ELSE file

\* the restore named a backup that was not there
BackupMissing ==
    IF last.name.latest THEN DOMAIN pre.backups = {}
    ELSE last.name.ts \notin DOMAIN pre.backups

\* C4: when the config holds a version token, applying theme_<X>.json sets
\* it to v<number>-<X> and a successful restore to v<number>-restored,
\* <number> being the numeric base of the old token, or 6 if it has none.
C4_VersionBump ==
    LET old == Token(pre.config)
        base == IF Len(old) >= 2 /\ old[1] = "v" /\ old[2] \in Digits
                THEN old[2] ELSE "6"
    IN  /\ (last.op = "apply" /\ last.exit = 0 /\ old # <<>>)
           => Token(config) = <<"v", base, "-">> \o Stem(last.file)
        /\ (last.op = "restore" /\ ~BackupMissing /\ old # <<>>)
           => Token(config) = <<"v", base, "-", "restored">>

\* the rules whose selector stands in the text
PresentRules(reps, t) ==
    SelectSeq(reps, LAMBDA r : Contains(t, r.sel))

\* a structural or button selector that the text lacks
LacksSelector(t) ==
    \/ ~Contains(t, <<"a:link, a:visited, a:hover, a:active">>)
    \/ \E i \in 1..Len(UiRules) : ~Contains(t, UiRules[i].sel)
    \/ \E i \in 1..Len(ButtonRules) : ~Contains(t, ButtonRules[i].sel)

\* C5: applying a theme to a stylesheet that lacks a targeted selector
\* raises nothing, and the stylesheet written is the one the other rules
\* give: the rule without a match changes nothing.
C5_NoMatchNoChange ==
    (/\ Loaded /\ HasAllKeys(AppliedTheme) /\ LacksSelector(pre_style))
    => /\ last.exit = 0
       /\ style = ApplyAll(PresentRules(Replacements(AppliedTheme),
                                        pre_style), 1, pre_style)

\* a theme was applied to a stylesheet without the #content td block, and
\* the other rules changed the stylesheet
C5_Witness ==
    /\ Loaded /\ HasAllKeys(AppliedTheme) /\ LacksSelector(pre_style)
    /\ ~Contains(pre_style, <<"#content td">>)
    /\ Contains(pre_style, <<".btn-blue", ":hover">>)
    /\ last.exit = 0 /\ style # pre_style

\* the theme was loaded and lacks a key of a substitution rule
LacksKey == Loaded /\ ~HasAllKeys(AppliedTheme)

\* the rules of the keys the theme holds
KeyedPatterns(rules, d) ==
    Patterns(SelectSeq(rules, LAMBDA r : r.key \in DOMAIN d), d)

\* C6, as claimed: when a key a rule refers to is absent from the theme,
\* that rule alone is skipped; the rules whose keys are present are applied
\* and the stylesheet is written.
C6_SkipsMissingKey ==
    LacksKey
    => /\ last.exit = 0
       /\ LET c == AppliedTheme.colors
          IN  style = ApplyAll(VarPatterns(c.backgrounds)
                               \o VarPatterns(c.text)
                               \o (IF "default" \in DOMAIN c.links
                                   THEN <<LinkPattern(AppliedTheme)>>
                                   ELSE <<>>)
                               \o KeyedPatterns(UiRules, c.ui_elements)
                               \o KeyedPatterns(ButtonRules, c.buttons),
                               1, pre_style)

\* C6, amended: when a key a structural or button rule refers to is absent
\* from the theme, apply_theme raises before it writes: the invocation ends
\* with exit status 1, and style.css and the version token are unchanged.
C6_MissingKeyFails ==
    LacksKey
    => last.exit = 1 /\ static = pre.static /\ config = pre.config

\* theme_nopopup.json, without ui_elements.popup_border, was applied to a
\* stylesheet with every targeted block and a config with a version token
C6_Witness ==
    /\ LacksKey /\ last.file = F_nopopup
    /\ "popup_border" \notin DOMAIN AppliedTheme.colors.ui_elements
    /\ HasAllTargets(Navy, pre_style)
    /\ Token(pre.config) # <<>>
    /\ last.exit = 1

\* C7: the root locator returns only a validated directory: the explicit
\* path if it has the three markers, else the first candidate that has
\* them; if there is neither, it fails with the root-not-found error.
C7_ValidatedRoot ==
    last.op = "construct" =>
       LET p == last.file[1]
           valid(q) == q # "" /\ markers \subseteq tree[q].has
           hits == {i \in 1..Len(possible_paths) : valid(possible_paths[i])}
       IN  /\ manager.state = "ready" => valid(manager.openbench_root)
           /\ valid(p) => manager.state = "ready"
                          /\ manager.openbench_root = p
           /\ (~valid(p) /\ hits # {})
              => /\ manager.state = "ready"
                 /\ manager.openbench_root = possible_paths[Min(hits)]
           /\ (~valid(p) /\ hits = {})
              => manager.state = "error" /\ last.exit = 1

\* C8: a restore of a backup that does not exist (a name with no
\* directory, or 'latest' with no backups) changes no file, leaves the
\* version token alone and ends without the error exit.
C8_MissingBackupNoChange ==
    (last.op = "restore" /\ BackupMissing)
    => /\ static = pre.static /\ config = pre.config
       /\ backups = pre.backups /\ last.exit = 0

\* a named backup was not found although other backups were there, with a
\* version token in the config and a stylesheet that differs from theirs
C8_Witness ==
    /\ last.op = "restore" /\ ~last.name.latest /\ BackupMissing
    /\ \E d \in DOMAIN backups :
          backups[d].files["style.css"] # static["style.css"]
    /\ Token(config) # <<>>

\* C9: a backup directory is never changed once backup_current has written
\* it, and every backup_current call makes a directory of its own.
C9_BackupsImmutable ==
    /\ \A d \in DOMAIN pre.backups :
          d \in DOMAIN backups /\ backups[d].files = pre.backups[d].files
    /\ Cardinality(DOMAIN backups) = Len(calls)

\* C10: running the same --apply or --restore a second time leaves
\* style.css, the other CSS files and the version token as the first run
\* left them.
C10_Idempotent ==
    (repeat /\ last.op \in {"apply", "restore"})
    => static = pre.static /\ config = pre.config

====
